---- MODULE Spec2Model ----
(***************************************************************************)
(* A model of qudoku: standard-form and Lagrange-form polynomials over the *)
(* secp256k1 scalar field, their homomorphic image in the curve group,     *)
(* share issuance, and the hash-to-curve retry loop.                       *)
(*                                                                         *)
(* Representation.  The scalar field is modelled by the prime field of     *)
(* ScalarOrder elements.  The curve group is cyclic of the same prime      *)
(* order, so a MaybePoint k*G is represented by k (0 is infinity) and      *)
(* "point * scalar" is multiplication modulo ScalarOrder.  The generic     *)
(* code is also instantiated at i32 (as in the crate's unit tests); i32    *)
(* values stay far inside the 32-bit range for the inputs drawn here, so   *)
(* i32 arithmetic is plain integer arithmetic with truncating division.    *)
(***************************************************************************)
EXTENDS Integers, Sequences, FiniteSets, TLC

VARIABLES
    build,   \* "debug" | "release": whether debug_assert! is compiled in
    f,       \* the StandardFormPolynomial held by the dealer (or NoPoly)
    g,       \* the LagrangePolynomial built from shares (or NoLagrange)
    out,     \* the value returned by the last library call
    call,    \* hashing.rs entry point being run: "none" | "inc_slice_be" | "hash_to_point"
    h,       \* the mutable byte buffer (hash_to_point's h / inc_slice_be's slice)
    h0,      \* the buffer as it was when the call started
    hpc,     \* position inside the hashing call
    point,   \* the value returned by hash_to_point
    prev,    \* the value returned by the previous hash_to_point call on the same input
    calls    \* number of hash_to_point calls completed on this input

vars == <<build, f, g, out, call, h, h0, hpc, point, prev, calls>>
polyVars == <<build, f, g, out>>
hashVars == <<call, h, h0, hpc, point, prev, calls>>

----------------------------------------------------------------------------
(* Bounds and sample sets *)

MaxCoeffs == 3
MaxShares == 3

\* Order of the scalar field / curve group (a small prime standing for secp256k1's n).
ScalarOrder == 5

MaybeScalar == 0 .. (ScalarOrder - 1)
Points == {2, 3}                \* fixed points Q (never infinity: Q is a secp::Point)
CoeffSamples == {0, 1, 3}       \* scalar coefficients drawn for the dealer's polynomial
ShareInputs == {1, 2, 4}        \* inputs at which the dealer issues shares
I32Coeffs == 0 .. 3
I32Inputs == 0 .. 4
I32SampleInputs == 0 .. 2
I32SampleOutputs == {1, 3, 4}
Builds == {"debug", "release"}

SeqsUpTo(S, n) == UNION {[1 .. k -> S] : k \in 0 .. n}

MaxSliceLen == 2                \* length of the slices drawn for inc_slice_be
MaxCalls == 2                   \* hash_to_point calls made on one input

\* Width of the digest in bytes: sha256 yields [u8; 32], scaled here to 2.
DigestLen == 2

\* Field prime of the curve y^2 = x^3 + 7 behind Point::lift_x, scaled from
\* secp256k1's p to a prime below 256^DigestLen.
CurveP == 46337

ByteSamples == {0, 1, 254, 255}
\* Inputs of test_inc_slice_be
TestFixtures ==
    {<<>>, <<0>>, <<0, 0, 254>>, <<0, 0, 255>>, <<255, 255, 255>>, <<255, 255, 1>>}
SliceSamples == SeqsUpTo(ByteSamples, MaxSliceLen) \cup TestFixtures
\* Digests that sha256 may return for the input
DigestSamples == [1 .. DigestLen -> ByteSamples]

----------------------------------------------------------------------------
(* Element arithmetic: secp::MaybeScalar, secp::MaybePoint, i32 *)

InputType(ty) == IF ty = "i32" THEN "i32" ELSE "scalar"

Norm(ty, v) == IF ty = "i32" THEN v ELSE v % ScalarOrder

Add(ty, a, b) == Norm(ty, a + b)
Sub(ty, a, b) == Norm(ty, a - b)
Mul(ty, a, b) == Norm(ty, a * b)

\* Scalar inversion, as done by secp's Div<Scalar>.
Inverse(d) == CHOOSE i \in 1 .. (ScalarOrder - 1) : (d * i) % ScalarOrder = 1

Abs(a) == IF a < 0 THEN -a ELSE a

\* Rust's integer division truncates toward zero.
TruncDiv(a, b) ==
    IF (a < 0) = (b < 0) THEN Abs(a) \div Abs(b) ELSE -(Abs(a) \div Abs(b))

Ok(v) == [ok |-> TRUE, val |-> v]
Panic == [ok |-> FALSE, val |-> 0]

\* A mutated division: multiplies by the divisor instead of its inverse.
unsafe_div_no_inverse(ty, num, denom) ==
    IF denom = 0 THEN Panic ELSE Ok(Mul(ty, num, denom))

\* UnsafeDiv::unsafe_div: i32 division panics on a zero divisor; the MaybeScalar
\* impl hits unreachable!() on MaybeScalar::Zero.
unsafe_div(ty, num, denom) ==
    IF denom = 0 THEN Panic
    ELSE IF ty = "i32" THEN Ok(TruncDiv(num, denom))
    ELSE Ok(Mul(ty, num, Inverse(denom)))

----------------------------------------------------------------------------
(* Evaluation and StandardFormPolynomial *)

Evaluation(input, output) == [input |-> input, output |-> output]

NoPoly == [ty |-> "none", coefficients |-> <<>>]
NoLagrange == [ty |-> "none", evaluations |-> <<>>]
NoOut == [op |-> "none"]

StandardFormPolynomial_new(ty, coefficients) ==
    [ty |-> ty, coefficients |-> coefficients]

\* A mutated Horner loop: walks the coefficients from the constant term up.
horner_poly_evaluate_forward(ty, x, coefficients) ==
    LET RECURSIVE Loop(_, _)
        Loop(i, acc) ==
            IF i > Len(coefficients) THEN acc
            ELSE Loop(i + 1, Add(ty, Mul(ty, acc, x), coefficients[i]))
    IN Loop(1, 0)

\* for &a in coefficients.into_iter().rev() { out = out * x + a }
horner_poly_evaluate(ty, x, coefficients) ==
    LET RECURSIVE Loop(_, _)
        Loop(i, acc) ==
            IF i = 0 THEN acc
            ELSE Loop(i - 1, Add(ty, Mul(ty, acc, x), coefficients[i]))
    IN Loop(Len(coefficients), 0)

\* A mutated degree: skips every zero coefficient instead of stopping at the
\* first non-zero one.
StandardFormPolynomial_degree_skip(coefficients) ==
    LET n == Len(coefficients)
        RECURSIVE Loop(_, _)
        Loop(i, degree) ==
            IF i = 0 THEN degree
            ELSE IF coefficients[i] = 0 /\ degree > 0 THEN Loop(i - 1, degree - 1)
            ELSE Loop(i - 1, degree)
    IN Loop(n, IF n = 0 THEN 0 ELSE n - 1)

StandardFormPolynomial_degree(coefficients) ==
    LET n == Len(coefficients)
        RECURSIVE Loop(_, _)
        Loop(i, degree) ==
            IF i = 0 THEN degree
            ELSE IF coefficients[i] = 0 /\ degree > 0 THEN Loop(i - 1, degree - 1)
            ELSE degree
    IN Loop(n, IF n = 0 THEN 0 ELSE n - 1)

StandardFormPolynomial_evaluate(p, x) ==
    Ok(horner_poly_evaluate(p.ty, x, p.coefficients))

\* Polynomial::interpolation_threshold (default method)
interpolation_threshold(degree) == degree + 1

----------------------------------------------------------------------------
(* LagrangePolynomial *)

\* Result of a basis evaluation: ok/val as for Ok and Panic, and div, which
\* records whether unsafe_div was reached.
Basis(ok, val, div) == [ok |-> ok, val |-> val, div |-> div]

\* A mutant that follows the doc comment of langrange_poly_evaluate to the
\* letter ("returns 0 if x == evaluations[eval_index].input").
own_input_result_zero == Basis(TRUE, 0, FALSE)

\* if x == xj { return I::one(); }
own_input_result == Basis(TRUE, 1, FALSE)

\* A mutant without the numerator short-circuit.
top_is_zero_never(top) == FALSE

\* if top.is_zero() { return top; }
top_is_zero(top) == top = 0

\* debug_assert!(!bottom.is_zero(), ...): compiled in debug builds only
debug_assert_fails(b, bottom) == b = "debug" /\ bottom = 0

langrange_poly_evaluate(ty, b, evaluations, eval_index, x) ==
    LET xj == evaluations[eval_index].input
        RECURSIVE Loop(_, _, _)
        Loop(i, top, bottom) ==
            IF i > Len(evaluations)
            THEN LET q == unsafe_div(ty, top, bottom) IN Basis(q.ok, q.val, TRUE)
            ELSE IF i = eval_index THEN Loop(i + 1, top, bottom)
            ELSE LET top2 == Mul(ty, top, Sub(ty, x, evaluations[i].input)) IN
                 IF top_is_zero(top2) THEN Basis(TRUE, top2, FALSE)
                 ELSE LET bottom2 == Mul(ty, bottom, Sub(ty, xj, evaluations[i].input)) IN
                      IF debug_assert_fails(b, bottom2) THEN Basis(FALSE, 0, FALSE)
                      ELSE Loop(i + 1, top2, bottom2)
    IN IF x = xj THEN own_input_result
       ELSE Loop(1, 1, 1)

LagrangePolynomial_new(ty, evaluations) ==
    [ty |-> ty, evaluations |-> evaluations]

\* for (i, eval) in evaluations { out = out + eval.output * langrange_poly_evaluate(..) }
LagrangePolynomial_evaluate(p, b, x) ==
    LET n == Len(p.evaluations)
        RECURSIVE Loop(_, _)
        Loop(i, acc) ==
            IF i > n THEN Ok(acc)
            ELSE LET l == langrange_poly_evaluate(InputType(p.ty), b, p.evaluations, i, x)
                 IN IF ~l.ok THEN Panic
                    ELSE Loop(i + 1, Add(p.ty, acc, Mul(p.ty, p.evaluations[i].output, l.val)))
    IN Loop(1, 0)

\* A mutated degree: the sample count itself.
LagrangePolynomial_degree_count(p) == Len(p.evaluations)

LagrangePolynomial_degree(p) ==
    IF Len(p.evaluations) = 0 THEN 0 ELSE Len(p.evaluations) - 1

----------------------------------------------------------------------------
(* Homomorphic point mapping (ops.rs) and share issuance (sharing.rs) *)

\* A mutant that leaves the constant term unmapped.
mul_point_standard_skip_constant(Q, p) ==
    [ty |-> "point",
     coefficients |-> [i \in 1 .. Len(p.coefficients) |->
                          IF i = 1 THEN p.coefficients[i]
                          ELSE Mul("point", p.coefficients[i], Q)]]

\* impl Mul<&SecretSharingPolynomial> for Point
mul_point_standard(Q, p) ==
    [ty |-> "point",
     coefficients |-> [i \in 1 .. Len(p.coefficients) |->
                          Mul("point", p.coefficients[i], Q)]]

\* impl Mul<&InterpolatedSecretPolynomial> for Point
mul_point_lagrange(Q, p) ==
    [ty |-> "point",
     evaluations |-> [i \in 1 .. Len(p.evaluations) |->
                         Evaluation(p.evaluations[i].input,
                                    Mul("point", p.evaluations[i].output, Q))]]

NoShare == Evaluation(0, 0)

\* impl_issue_share!: Evaluation { input: x, output: self.evaluate(x) }
issue_share(res, x) ==
    IF res.ok THEN Evaluation(x, res.val) ELSE NoShare

\* MaybePoint::serialize, the compressed encoding: a parity byte (2 for an
\* even y, 3 for an odd y) followed by the x coordinate; infinity is all
\* zero bytes.  The points k*G and -k*G share their x coordinate and differ
\* in parity; the x coordinate of k*G is represented by min(k, -k).
serialize(P) ==
    IF P = 0 THEN <<0, 0>>
    ELSE IF 2 * P < ScalarOrder THEN <<2, P>>
    ELSE <<3, ScalarOrder - P>>

\* sha256: a digest of DigestLen bytes computed from every byte of the input
\* in order.
sha256(input) ==
    LET RECURSIVE Absorb(_, _)
        Absorb(i, acc) ==
            IF i > Len(input) THEN acc
            ELSE Absorb(i + 1, ((acc * 31) + input[i] + 7) % (256 * 256))
        v == Absorb(1, Len(input))
    IN <<v \div 256, v % 256>>

\* impl_derive_secret! { PointSharingPolynomial }
derive_secret_standard(p, x) ==
    LET res == StandardFormPolynomial_evaluate(p, x)
    IN IF res.ok THEN Ok(sha256(serialize(res.val))) ELSE Panic

derive_secret_lagrange_first_sample(p, b, x) ==
    IF Len(p.evaluations) = 0 THEN Ok(sha256(serialize(0)))
    ELSE Ok(sha256(serialize(p.evaluations[1].output)))

\* impl_derive_secret! { InterpolatedPointPolynomial }
derive_secret_lagrange(p, b, x) ==
    LET res == LagrangePolynomial_evaluate(p, b, x)
    IN IF res.ok THEN Ok(sha256(serialize(res.val))) ELSE Panic

\* The point shares (Q * &f).issue_share(x) at the given inputs.
point_shares(Q, p, inputs) ==
    LET Z == mul_point_standard(Q, p)
    IN [i \in 1 .. Len(inputs) |->
           issue_share(StandardFormPolynomial_evaluate(Z, inputs[i]), inputs[i])]

\* Every basis value computed by one evaluate(x) call, by sample index.
BasisValues(p, b, x) ==
    [i \in 1 .. Len(p.evaluations) |->
        langrange_poly_evaluate(InputType(p.ty), b, p.evaluations, i, x)]

----------------------------------------------------------------------------
(* Initial state *)

HashIdle ==
    /\ call = "none"
    /\ h = <<>>
    /\ h0 = <<>>
    /\ hpc = "idle"
    /\ point = [ok |-> FALSE, x |-> 0]
    /\ prev = [ok |-> FALSE, x |-> 0]
    /\ calls = 0

\* Nothing has been constructed and no hashing call is running.
Init ==
    /\ build \in Builds
    /\ f = NoPoly
    /\ g = NoLagrange
    /\ out = NoOut
    /\ HashIdle

----------------------------------------------------------------------------
(* Operations on polynomials.  Each action draws its inputs itself; a call  *)
(* is made only when the previous call's result has been taken.            *)

InputsOf(ty) == IF ty = "i32" THEN I32Inputs ELSE MaybeScalar

I32Samples == {Evaluation(i, o) : i \in I32SampleInputs, o \in I32SampleOutputs}

\* The dealer builds a SecretSharingPolynomial from scalar coefficients.
NewSecretSharingPolynomial ==
    /\ out = NoOut
    /\ f = NoPoly
    /\ g = NoLagrange
    /\ \E c \in SeqsUpTo(CoeffSamples, MaxCoeffs) :
          f' = StandardFormPolynomial_new("scalar", c)
    /\ UNCHANGED <<build, g, out, hashVars>>

\* StandardFormPolynomial::<i32>::new, as in the unit tests of standard.rs.
NewI32Polynomial ==
    /\ out = NoOut
    /\ f = NoPoly
    /\ g = NoLagrange
    /\ \E c \in SeqsUpTo(I32Coeffs, MaxCoeffs) :
          f' = StandardFormPolynomial_new("i32", c)
    /\ UNCHANGED <<build, g, out, hashVars>>

\* Shares of f are issued at the inputs xs and collected into an
\* InterpolatedSecretPolynomial (ops.rs test, lines 153-160).
Interpolate ==
    /\ out = NoOut
    /\ f.ty = "scalar"
    /\ g = NoLagrange
    /\ \E xs \in SeqsUpTo(ShareInputs, MaxShares) :
          g' = LagrangePolynomial_new("scalar",
                  [i \in 1 .. Len(xs) |->
                      issue_share(StandardFormPolynomial_evaluate(f, xs[i]), xs[i])])
    /\ UNCHANGED <<build, f, out, hashVars>>

\* LagrangePolynomial::new on caller-supplied i32 samples (lagrange.rs test).
NewI32Lagrange ==
    /\ out = NoOut
    /\ f = NoPoly
    /\ g = NoLagrange
    /\ \E evaluations \in SeqsUpTo(I32Samples, MaxShares) :
          g' = LagrangePolynomial_new("i32", evaluations)
    /\ UNCHANGED <<build, f, out, hashVars>>

\* f.issue_share(x) for the dealer's polynomial; f.evaluate(x) for i32.
EvaluateStandard ==
    /\ out = NoOut
    /\ f # NoPoly
    /\ \E x \in InputsOf(f.ty) :
          LET res == StandardFormPolynomial_evaluate(f, x) IN
          out' = [op |-> "evaluate", on |-> "f", x |-> x, res |-> res,
                  share |-> issue_share(res, x)]
    /\ UNCHANGED <<build, f, g, hashVars>>

\* f.degree() and f.interpolation_threshold()
DegreeStandard ==
    /\ out = NoOut
    /\ f # NoPoly
    /\ LET d == StandardFormPolynomial_degree(f.coefficients) IN
       out' = [op |-> "degree", on |-> "f", degree |-> d,
               threshold |-> interpolation_threshold(d)]
    /\ UNCHANGED <<build, f, g, hashVars>>

\* (Q * &f).issue_share(x)
MulPointStandard ==
    /\ out = NoOut
    /\ f.ty = "scalar"
    /\ \E Q \in Points, x \in MaybeScalar :
          LET Z == mul_point_standard(Q, f)
              res == StandardFormPolynomial_evaluate(Z, x)
          IN out' = [op |-> "mul_point", on |-> "f", q |-> Q, x |-> x, mapped |-> Z,
                     res |-> res, share |-> issue_share(res, x)]
    /\ UNCHANGED <<build, f, g, hashVars>>

\* g.issue_share(x) for interpolated shares; g.evaluate(x) for i32.
EvaluateLagrange ==
    /\ out = NoOut
    /\ g # NoLagrange
    /\ \E x \in InputsOf(g.ty) :
          LET res == LagrangePolynomial_evaluate(g, build, x) IN
          out' = [op |-> "evaluate", on |-> "g", x |-> x, res |-> res,
                  share |-> issue_share(res, x), basis |-> BasisValues(g, build, x)]
    /\ UNCHANGED <<build, f, g, hashVars>>

\* g.degree() and g.interpolation_threshold()
DegreeLagrange ==
    /\ out = NoOut
    /\ g # NoLagrange
    /\ LET d == LagrangePolynomial_degree(g) IN
       out' = [op |-> "degree", on |-> "g", degree |-> d,
               threshold |-> interpolation_threshold(d)]
    /\ UNCHANGED <<build, f, g, hashVars>>

\* (Q * &g).issue_share(x)
MulPointLagrange ==
    /\ out = NoOut
    /\ g.ty = "scalar"
    /\ \E Q \in Points, x \in MaybeScalar :
          LET Z == mul_point_lagrange(Q, g)
              res == LagrangePolynomial_evaluate(Z, build, x)
          IN out' = [op |-> "mul_point", on |-> "g", q |-> Q, x |-> x, mapped |-> Z,
                     res |-> res, share |-> issue_share(res, x)]
    /\ UNCHANGED <<build, f, g, hashVars>>

\* (Q * &f).derive_secret(x): the dealer's secret.
DeriveSecretDealer ==
    /\ out = NoOut
    /\ f.ty = "scalar"
    /\ \E Q \in Points, x \in MaybeScalar :
          out' = [op |-> "derive_secret", on |-> "f", q |-> Q, x |-> x,
                  secret |-> derive_secret_standard(mul_point_standard(Q, f), x)]
    /\ UNCHANGED <<build, f, g, hashVars>>

\* (Q * &g).derive_secret(x): shareholders map the interpolated secret
\* polynomial by Q.
DeriveSecretMapped ==
    /\ out = NoOut
    /\ g.ty = "scalar"
    /\ \E Q \in Points, x \in MaybeScalar :
          out' = [op |-> "derive_secret", on |-> "g", q |-> Q, x |-> x,
                  secret |-> derive_secret_lagrange(mul_point_lagrange(Q, g), build, x)]
    /\ UNCHANGED <<build, f, g, hashVars>>

\* InterpolatedPointPolynomial::new(point shares).derive_secret(x): the
\* shareholders interpolate the point shares issued from Q * f at the
\* inputs of their shares.
DeriveSecretPointShares ==
    /\ out = NoOut
    /\ f.ty = "scalar"
    /\ g.ty = "scalar"
    /\ \E Q \in Points, x \in MaybeScalar :
          LET inputs == [i \in 1 .. Len(g.evaluations) |-> g.evaluations[i].input]
              Z == LagrangePolynomial_new("point", point_shares(Q, f, inputs))
          IN out' = [op |-> "derive_secret", on |-> "shares", q |-> Q, x |-> x,
                     interpolated |-> Z,
                     secret |-> derive_secret_lagrange(Z, build, x)]
    /\ UNCHANGED <<build, f, g, hashVars>>

\* The caller takes the returned value; the library is called again only then.
TakeResult ==
    /\ out # NoOut
    /\ out' = NoOut
    /\ UNCHANGED <<build, f, g, hashVars>>

Next ==
    \/ NewSecretSharingPolynomial
    \/ NewI32Polynomial
    \/ Interpolate
    \/ NewI32Lagrange
    \/ EvaluateStandard
    \/ DegreeStandard
    \/ MulPointStandard
    \/ EvaluateLagrange
    \/ DegreeLagrange
    \/ MulPointLagrange
    \/ DeriveSecretDealer
    \/ DeriveSecretMapped
    \/ DeriveSecretPointShares
    \/ TakeResult

Spec == Init /\ [][Next]_vars

----------------------------------------------------------------------------
(* hashing.rs *)

\* A mutant that clears a 0xFF byte without carrying into the next one.
inc_slice_be_no_carry(slice) ==
    IF Len(slice) = 0 THEN slice
    ELSE LET last == Len(slice) IN
         IF slice[last] = 255 THEN [slice EXCEPT ![last] = 0]
         ELSE [slice EXCEPT ![last] = @ + 1]

RECURSIVE inc_slice_be(_)
\* Recursively increments a slice of bytes as a big-endian integer.
inc_slice_be(slice) ==
    IF Len(slice) = 0 THEN slice
    ELSE LET last == Len(slice) IN
         IF slice[last] = 255
         THEN Append(inc_slice_be(SubSeq(slice, 1, last - 1)), 0)
         ELSE [slice EXCEPT ![last] = @ + 1]

\* The big-endian unsigned integer held by a byte sequence.
RECURSIVE BeValue(_)
BeValue(bytes) ==
    IF Len(bytes) = 0 THEN 0
    ELSE BeValue(SubSeq(bytes, 1, Len(bytes) - 1)) * 256 + bytes[Len(bytes)]

Squares == {(y * y) % CurveP : y \in 0 .. (CurveP - 1)}

\* Whether v is the x-coordinate of a curve point.
OnCurve(v) ==
    v < CurveP /\ (((((v * v) % CurveP) * v) % CurveP) + 7) % CurveP \in Squares

NoPoint == [ok |-> FALSE, x |-> 0]

\* Point::lift_x: the even-y point with the given x-coordinate, or an error.
\* A lifted point is identified by its x-coordinate.
lift_x(bytes) ==
    IF OnCurve(BeValue(bytes)) THEN [ok |-> TRUE, x |-> BeValue(bytes)] ELSE NoPoint

PolyIdle ==
    /\ build = "release"
    /\ f = NoPoly
    /\ g = NoLagrange
    /\ out = NoOut

\* One input is fixed for the run; h0 is the slice handed to inc_slice_be,
\* or the digest sha256 returns for the input of hash_to_point.
HashInit ==
    /\ PolyIdle
    /\ call \in {"inc_slice_be", "hash_to_point"}
    /\ h0 \in (IF call = "inc_slice_be" THEN SliceSamples ELSE DigestSamples)
    /\ h = (IF call = "inc_slice_be" THEN h0 ELSE <<>>)
    /\ hpc = "start"
    /\ point = NoPoint
    /\ prev = NoPoint
    /\ calls = 0

\* inc_slice_be(&mut s), as called by test_inc_slice_be
IncSliceBe ==
    /\ call = "inc_slice_be"
    /\ hpc = "start"
    /\ h' = inc_slice_be(h)
    /\ hpc' = "done"
    /\ UNCHANGED <<polyVars, call, h0, point, prev, calls>>

\* let mut h = sha256(input);
HashStart ==
    /\ call = "hash_to_point"
    /\ hpc = "start"
    /\ h' = h0
    /\ hpc' = "loop"
    /\ UNCHANGED <<polyVars, call, h0, point, prev, calls>>

\* if let Ok(point) = Point::lift_x(&h) { return point; }
HashLift ==
    /\ hpc = "loop"
    /\ lift_x(h).ok
    /\ point' = lift_x(h)
    /\ hpc' = "done"
    /\ calls' = calls + 1
    /\ UNCHANGED <<polyVars, call, h, h0, prev>>

\* inc_slice_be(&mut h); and around the loop
HashRetry ==
    /\ hpc = "loop"
    /\ ~lift_x(h).ok
    /\ h' = inc_slice_be(h)
    /\ UNCHANGED <<polyVars, call, h0, hpc, point, prev, calls>>

\* The caller keeps the point and calls hash_to_point on the same input again.
HashAgain ==
    /\ call = "hash_to_point"
    /\ hpc = "done"
    /\ calls < MaxCalls
    /\ prev' = point
    /\ point' = NoPoint
    /\ h' = <<>>
    /\ hpc' = "start"
    /\ UNCHANGED <<polyVars, call, h0, calls>>

HashNext ==
    \/ IncSliceBe
    \/ HashStart
    \/ HashLift
    \/ HashRetry
    \/ HashAgain

\* The body of hash_to_point runs to its return without outside scheduling.
HashSpec ==
    /\ HashInit
    /\ [][HashNext]_vars
    /\ WF_vars(HashStart)
    /\ WF_vars(HashLift)
    /\ WF_vars(HashRetry)

----------------------------------------------------------------------------
(* Vocabulary of the properties *)

InputSet(evaluations) == {evaluations[i].input : i \in 1 .. Len(evaluations)}

DistinctInputs(evaluations) ==
    \A i, j \in 1 .. Len(evaluations) :
        i # j => evaluations[i].input # evaluations[j].input

\* Every sample of q lies on p.
SamplesOf(p, q) ==
    \A i \in 1 .. Len(q.evaluations) :
        Ok(q.evaluations[i].output) =
            StandardFormPolynomial_evaluate(p, q.evaluations[i].input)

RECURSIVE Pow(_, _, _)
Pow(ty, x, k) == IF k = 0 THEN 1 ELSE Mul(ty, x, Pow(ty, x, k - 1))

\* sum over i of c[i] * x^i, c[1] being the constant term
RECURSIVE PowerSum(_, _, _, _)
PowerSum(ty, c, x, n) ==
    IF n = 0 THEN 0
    ELSE Add(ty, PowerSum(ty, c, x, n - 1), Mul(ty, c[n], Pow(ty, x, n - 1)))

\* Largest 0-based index of a non-zero coefficient, 0 when there is none.
HighestNonZero(c) ==
    LET nz == {i \in 1 .. Len(c) : c[i] # 0}
    IN IF nz = {} THEN 0 ELSE (CHOOSE i \in nz : \A j \in nz : j <= i) - 1

DealerDegree == StandardFormPolynomial_degree(f.coefficients)

\* g holds shares of the dealer's f at pairwise distinct inputs.
SharesOfDealer ==
    /\ g.ty = "scalar"
    /\ f.ty = "scalar"
    /\ DistinctInputs(g.evaluations)
    /\ SamplesOf(f, g)

AtThreshold == SharesOfDealer /\ Len(g.evaluations) >= DealerDegree + 1
UnderThreshold == SharesOfDealer /\ Len(g.evaluations) < DealerDegree + 1

EvaluatedLagrange == out.op = "evaluate" /\ out.on = "g"

----------------------------------------------------------------------------
(* C1 *)

\* C1: reconstruction fidelity.  When g interpolates at least degree(f)+1
\* shares of f with pairwise distinct inputs, g.evaluate(x) returns
\* f.evaluate(x) for every x, and g.issue_share(x) is the dealer's share.
C1_ReconstructionFidelity ==
    (EvaluatedLagrange /\ AtThreshold) =>
        /\ out.res = StandardFormPolynomial_evaluate(f, out.x)
        /\ out.share = issue_share(StandardFormPolynomial_evaluate(f, out.x), out.x)

\* A degree-2 polynomial rebuilt from three shares and evaluated off the samples.
C1_Witness ==
    /\ EvaluatedLagrange
    /\ AtThreshold
    /\ DealerDegree = 2
    /\ out.x \notin InputSet(g.evaluations)
    /\ out.res.ok

----------------------------------------------------------------------------
(* C2 *)

\* C2: homomorphism.  (Q * P).evaluate(x) = P.evaluate(x) * Q for the standard
\* form and for the interpolated form with distinct inputs, and Q * P maps
\* every coefficient / sample output by Q, keeping order and sample inputs.
C2_Homomorphism ==
    /\ (out.op = "mul_point" /\ out.on = "f") =>
          /\ out.res = Ok(Mul("point", StandardFormPolynomial_evaluate(f, out.x).val, out.q))
          /\ Len(out.mapped.coefficients) = Len(f.coefficients)
          /\ \A i \in 1 .. Len(f.coefficients) :
                out.mapped.coefficients[i] = Mul("point", f.coefficients[i], out.q)
    /\ (out.op = "mul_point" /\ out.on = "g" /\ DistinctInputs(g.evaluations)) =>
          /\ LagrangePolynomial_evaluate(g, build, out.x).ok
          /\ out.res = Ok(Mul("point", LagrangePolynomial_evaluate(g, build, out.x).val, out.q))
          /\ Len(out.mapped.evaluations) = Len(g.evaluations)
          /\ \A i \in 1 .. Len(g.evaluations) :
                /\ out.mapped.evaluations[i].input = g.evaluations[i].input
                /\ out.mapped.evaluations[i].output =
                      Mul("point", g.evaluations[i].output, out.q)

\* An interpolated polynomial of three samples, mapped and evaluated off the
\* samples to a point other than infinity.
C2_Witness ==
    /\ out.op = "mul_point"
    /\ out.on = "g"
    /\ DistinctInputs(g.evaluations)
    /\ Len(g.evaluations) = 3
    /\ out.x \notin InputSet(g.evaluations)
    /\ out.res.ok
    /\ out.res.val # 0

----------------------------------------------------------------------------
(* C3 *)

\* Inputs that were not supplied and where g nevertheless returns f's value.
AgreeingElsewhere ==
    {x \in MaybeScalar \ InputSet(g.evaluations) :
        LagrangePolynomial_evaluate(g, build, x) = StandardFormPolynomial_evaluate(f, x)}

\* C3 as stated: below the threshold the reconstruction differs from f at
\* every input that is not a supplied one.  (Stated here for a polynomial
\* with a non-zero coefficient and at least one sample, so that a violation
\* does not rest on the zero polynomial or on an empty sample list.)
C3_DiffersEverywhereElse ==
    (EvaluatedLagrange /\ UnderThreshold /\ out.x \notin InputSet(g.evaluations)
        /\ Len(g.evaluations) >= 1
        /\ \E i \in 1 .. Len(f.coefficients) : f.coefficients[i] # 0) =>
        out.res # StandardFormPolynomial_evaluate(f, out.x)

\* C3 (amended): below the threshold the reconstruction returns f's value at
\* every supplied input; unless f has no non-zero coefficient, it returns f's
\* value at no more than degree(f) - (number of samples) other inputs.
C3_UnderThresholdAgreement ==
    UnderThreshold =>
        /\ \A i \in 1 .. Len(g.evaluations) :
              LagrangePolynomial_evaluate(g, build, g.evaluations[i].input) =
                  StandardFormPolynomial_evaluate(f, g.evaluations[i].input)
        /\ (EvaluatedLagrange /\ out.x \in InputSet(g.evaluations)) =>
              out.res = StandardFormPolynomial_evaluate(f, out.x)
        /\ (\E i \in 1 .. Len(f.coefficients) : f.coefficients[i] # 0) =>
              Cardinality(AgreeingElsewhere) <= DealerDegree - Len(g.evaluations)

\* One share of a degree-2 polynomial: the reconstruction is evaluated at a
\* supplied input, and it agrees with f at exactly one other input.
C3_Witness ==
    /\ UnderThreshold
    /\ EvaluatedLagrange
    /\ Len(g.evaluations) = 1
    /\ DealerDegree = 2
    /\ out.x \in InputSet(g.evaluations)
    /\ Cardinality(AgreeingElsewhere) = 1

----------------------------------------------------------------------------
(* C4 *)

\* C4: with two samples sharing an input, evaluate(x) fails for every x,
\* stored inputs included, and never returns a value.
C4_DuplicateInputsFail ==
    (out.op \in {"evaluate", "mul_point"} /\ out.on = "g"
        /\ ~DistinctInputs(g.evaluations)) => ~out.res.ok

----------------------------------------------------------------------------
(* C5 *)

\* C5: Horner evaluation of a non-empty coefficient vector equals the power
\* sum; [1,3,2] gives 1, 6, 15, 28, 45 at 0..4.
C5_HornerIsPowerSum ==
    (out.op = "evaluate" /\ out.on = "f" /\ Len(f.coefficients) > 0) =>
        /\ out.res = Ok(PowerSum(f.ty, f.coefficients, out.x, Len(f.coefficients)))
        /\ (f.ty = "i32" /\ f.coefficients = <<1, 3, 2>>) =>
              out.res.val = <<1, 6, 15, 28, 45>>[out.x + 1]

\* f(x) = 1 + 3x + 2x^2 over i32, evaluated at 4.
C5_Witness ==
    /\ out.op = "evaluate"
    /\ out.on = "f"
    /\ f.ty = "i32"
    /\ f.coefficients = <<1, 3, 2>>
    /\ out.x = 4
    /\ out.res = Ok(45)

----------------------------------------------------------------------------
(* C6 *)

----------------------------------------------------------------------------
(* C7 *)

\* C7 as stated: threshold = degree + 1 = number of samples, for any number
\* of samples.
C7_ThresholdIsSampleCount ==
    (out.op = "degree" /\ out.on = "g") =>
        /\ out.threshold = out.degree + 1
        /\ out.threshold = Len(g.evaluations)

\* C7 (amended): threshold = degree + 1; it is the number of samples when
\* there is at least one sample, and 1 (degree 0) when there is none.
C7_ThresholdOfLagrange ==
    (out.op = "degree" /\ out.on = "g") =>
        /\ out.threshold = out.degree + 1
        /\ Len(g.evaluations) >= 1 => out.threshold = Len(g.evaluations)
        /\ Len(g.evaluations) = 0 => (out.degree = 0 /\ out.threshold = 1)

\* Three samples: degree 2, threshold 3.
C7_Witness ==
    /\ out.op = "degree"
    /\ out.on = "g"
    /\ Len(g.evaluations) = 3
    /\ out.threshold = 3

----------------------------------------------------------------------------
(* C8 *)

----------------------------------------------------------------------------
(* C9 *)

Modulus == BeValue([i \in 1 .. DigestLen |-> 255]) + 1

\* The first of v, v+1, v+2, ... (modulo 256^DigestLen) that lifts.
FirstLiftable(v) ==
    LET k == CHOOSE k \in 0 .. (Modulus - 1) :
                 /\ OnCurve((v + k) % Modulus)
                 /\ \A j \in 0 .. (k - 1) : ~OnCurve((v + j) % Modulus)
    IN (v + k) % Modulus

\* C9: every hash_to_point call returns; it returns the lift of the first
\* value of digest, digest+1, ... (big-endian, modulo 256^DigestLen) that
\* lifts, and a second call on the same input returns the same point.
C9_HashToPoint ==
    /\ []((call = "hash_to_point" /\ hpc = "done") =>
            /\ point = [ok |-> TRUE, x |-> FirstLiftable(BeValue(h0))]
            /\ calls >= 2 => point = prev)
    /\ []((call = "hash_to_point" /\ hpc \in {"start", "loop"}) => <>(hpc = "done"))

\* The second call has returned, after retries that wrapped past the all-0xFF
\* digest.
C9_Witness ==
    /\ call = "hash_to_point"
    /\ hpc = "done"
    /\ calls = 2
    /\ point.ok
    /\ point = prev
    /\ BeValue(h) < BeValue(h0)

----------------------------------------------------------------------------
(* C10 *)

RECURSIVE Pow256(_)
Pow256(n) == IF n = 0 THEN 1 ELSE 256 * Pow256(n - 1)

\* C10: inc_slice_be keeps the length and adds one to the big-endian value
\* modulo 256^n; all-0xFF wraps to all-zero, [0,0,0xFF] becomes [0,1,0], and
\* the empty slice is unchanged.
C10_IncSliceBe ==
    (call = "inc_slice_be" /\ hpc = "done") =>
        /\ Len(h) = Len(h0)
        /\ \A i \in 1 .. Len(h) : h[i] \in 0 .. 255
        /\ BeValue(h) = (BeValue(h0) + 1) % Pow256(Len(h0))
        /\ (\A i \in 1 .. Len(h0) : h0[i] = 255) => (\A i \in 1 .. Len(h) : h[i] = 0)
        /\ h0 = <<0, 0, 255>> => h = <<0, 1, 0>>
        /\ h0 = <<>> => h = <<>>

\* The carry of [0,0,0xFF].
C10_Witness ==
    /\ call = "inc_slice_be"
    /\ hpc = "done"
    /\ h0 = <<0, 0, 255>>
    /\ h = <<0, 1, 0>>

----------------------------------------------------------------------------
(* C11 *)

DerivedSecret == out.op = "derive_secret"

\* The dealer's secret for the fixed point and input of the last call.
DealerSecret == derive_secret_standard(mul_point_standard(out.q, f), out.x)

\* C11: dealer and shareholders derive the same secret.  With at least
\* interpolation_threshold(f) shares of f at pairwise distinct inputs, the
\* secret derived from the interpolated secret polynomial mapped by Q and the
\* secret derived from the interpolated point shares of Q * f both equal
\* (Q * f).derive_secret(x) for every x, which is the hash of the
\* serialization of f.evaluate(x) * Q.
C11_SameSecret ==
    /\ (DerivedSecret /\ out.on = "f") =>
          out.secret =
              Ok(sha256(serialize(
                  Mul("point", StandardFormPolynomial_evaluate(f, out.x).val, out.q))))
    /\ (DerivedSecret /\ out.on \in {"g", "shares"} /\ AtThreshold) =>
          /\ out.secret = DealerSecret
          /\ out.secret =
                Ok(sha256(serialize(
                    Mul("point", StandardFormPolynomial_evaluate(f, out.x).val, out.q))))

\* Three point shares of a degree-2 polynomial interpolated, and a secret
\* derived off the samples from a point other than infinity.
C11_Witness ==
    /\ DerivedSecret
    /\ out.on = "shares"
    /\ AtThreshold
    /\ DealerDegree = 2
    /\ out.x \notin InputSet(g.evaluations)
    /\ out.secret.ok
    /\ out.secret # Ok(sha256(serialize(0)))

====
